---- MODULE Spec2Model ----
(***************************************************************************)
(* st-bridge: the TCP bridge server (server.py).  One asyncio event loop   *)
(* runs a handler task per accepted connection (_handle), any number of    *)
(* broadcast() calls and one async_close() call.  A step of the model is   *)
(* the code a task runs between two suspension points (an await that can   *)
(* suspend: a contended lock, drain(), read(), the command executor,       *)
(* wait_closed()).  The discovery responder (discovery.py) handles each    *)
(* datagram in one synchronous callback, _on_datagram.                     *)
(***************************************************************************)
EXTENDS Integers, Sequences, FiniteSets, TLC

\* Bounds: broadcast() calls made, lines sent by all peers together, events
\* of the initial-state provider, bytes sent on the connection whose framing
\* is followed.
MaxBroadcasts == 2
MaxLines == 2
MaxReplay == 2
MaxStream == 4

\* The connections the listener accepts.
Sessions == {1, 2}
Bcasts == 1..MaxBroadcasts

\* Tasks that contend for BridgeServer._lock.
NoProc == <<"none", 0>>
SessProc(s) == <<"s", s>>
BcastProc(b) == <<"b", b>>
CloseProc == <<"c", 0>>

\* The configured shared secret (entry.data[CONF_TOKEN]).
Token == "secret"

\* Inbound lines, by what _on_line sees in them.
\*   garbage     not JSON                    num    JSON, but not an object
\*   ping        {"type":"ping"}             other  unrecognized type
\*   auth        {"type":"auth","token":Token}
\*   cmd         command, entity_id and command strings, args a map
\*   cmd_noargs  the same without args
\*   cmd_list    the same with args a non-empty list
\*   cmd_bad     command, entity_id a number
\*   cmd_nocmd   command, the command field missing
Lines == {"garbage", "num", "ping", "cmd", "cmd_noargs", "cmd_list", "cmd_bad",
          "cmd_nocmd", "other", "auth"}

CommandLines == {"cmd", "cmd_noargs", "cmd_list", "cmd_bad", "cmd_nocmd"}

\* One line of each outcome of _on_line.
BasicLines == {"garbage", "num", "ping", "cmd", "cmd_bad", "other", "auth"}

IsJson(l) == l # "garbage"
IsObject(l) == l \notin {"garbage", "num"}
TypeOf(l) == CASE l = "ping" -> "ping"
               [] l \in CommandLines -> "command"
               [] l = "auth" -> "auth"
               [] OTHER -> "other"

\* The fields of a command line: msg.get("entity_id"), msg.get("command"),
\* and args as the line carries it.
EntityIdOf(l) == IF l = "cmd_bad" THEN "num" ELSE "str"
CommandOf(l) == IF l = "cmd_nocmd" THEN "missing" ELSE "str"
ArgsOf(l) == CASE l = "cmd_noargs" -> "absent"
               [] l = "cmd_list" -> "list"
               [] OTHER -> "map"

\* A check that accepts a command when either field is a string.
FieldsAreStrEither(l) == EntityIdOf(l) = "str" \/ CommandOf(l) = "str"

\* isinstance(ent, str) and isinstance(cmd, str)
FieldsAreStr(l) == EntityIdOf(l) = "str" /\ CommandOf(l) = "str"

\* args = msg.get("args", {}) or {}: the empty map when args is absent (or
\* falsy), the value of the line otherwise, whatever its type.
PassedArgs(l) == IF ArgsOf(l) = "absent" THEN "empty_map" ELSE ArgsOf(l)

\* The invocation self._call(ent, cmd, args) made for line l.
Call(l) == [line |-> l, args |-> PassedArgs(l)]

\* Outbound messages: <<type, id>>; id is the broadcast call for a broadcast.
Msg(t) == <<t, 0>>
Bc(b) == <<"bc", b>>
Hello == Msg("hello")
EntityList == Msg("entity_list")
Pong == Msg("pong")
ErrBadJson == Msg("bad_json")
ErrBadCommand == Msg("bad_command")

\* server.py, the read loop of _handle over bytes.  "4" is a digit, "x" a
\* letter, \xff a byte that is not valid UTF-8.
Bytes == {"4", "x", " ", "\n", "\\xff"}

\* buffer.find(b"\n"): the place of the first newline, 0 for none.
Find(b) ==
    IF \E i \in DOMAIN b : b[i] = "\n"
    THEN CHOOSE i \in DOMAIN b : b[i] = "\n" /\ \A j \in 1..(i - 1) : b[j] # "\n"
    ELSE 0

\* bytes.decode(errors="ignore") of a line: the invalid bytes are dropped.
DecodeLine(b) == SelectSeq(b, LAMBDA c : c # "\\xff")

\* str.strip(): blanks at both ends are removed.
RECURSIVE StripLine(_)
StripLine(x) ==
    IF x = <<>> THEN x
    ELSE IF x[1] = " " THEN StripLine(Tail(x))
    ELSE IF x[Len(x)] = " " THEN StripLine(SubSeq(x, 1, Len(x) - 1))
    ELSE x

\* _on_line leaves through an exception for a line that is JSON but not an
\* object: here a number, a line of digits.  Any other line of these bytes is
\* not JSON and is answered by bad_json.
LineRaises(x) == \A i \in DOMAIN x : x[i] = "4"

\* The inner loop from a buffer b up to its first call of _on_line: blank
\* lines are skipped; line is <<>> when the buffer holds no further line.
RECURSIVE NextLine(_)
NextLine(b) ==
    LET nl == Find(b)
    IN IF nl = 0 THEN [buffer |-> b, line |-> <<>>]
       ELSE LET line == StripLine(DecodeLine(SubSeq(b, 1, nl - 1)))
                rest == SubSeq(b, nl + 1, Len(b))
            IN IF line = <<>> THEN NextLine(rest)
               ELSE [buffer |-> rest, line |-> line]

\* discovery.py: datagrams as their first line and header lines.
MaxHeaders == 2
Port == 8323
SSDP_ST == "urn:st-bridge:service:bridge:1"

\* Source addresses of datagrams.
Addrs == {<<"192.0.2.5", 51000>>, <<"192.0.2.9", 1900>>}

\* First lines as bytes; \xff stands for a byte that is not valid UTF-8.
FirstLines == {"M-SEARCH * HTTP/1.1", "m-search * http/1.1",
               "\\xffM-SEARCH * HTTP/1.1", "NOTIFY * HTTP/1.1",
               "HTTP/1.1 200 OK"}

\* The bytes of a line after its first ":" (v), the bytes before it (k);
\* a line without ":" has colon FALSE and its bytes in k.
HeaderLine(k, v) == [colon |-> TRUE, k |-> k, v |-> v]
PlainLine(k) == [colon |-> FALSE, k |-> k, v |-> ""]

HeaderLines ==
    { HeaderLine("ST", " urn:st-bridge:service:bridge:1"),
      HeaderLine("st", "ssdp:all "),
      HeaderLine("ST", " ssdp:\\xffall"),
      HeaderLine("ST", " upnp:rootdevice"),
      HeaderLine("MAN", " \"ssdp:discover\""),
      HeaderLine("Man", " \"ssdp:alive\""),
      HeaderLine("HOST", " 239.255.255.250:1900"),
      HeaderLine("USER-AGENT", " hub\\xff/1.0"),
      PlainLine("") }

RECURSIVE SeqsUpTo(_, _)
SeqsUpTo(S, n) ==
    IF n = 0 THEN {<<>>}
    ELSE LET shorter == SeqsUpTo(S, n - 1)
         IN shorter \cup {Append(q, x) : q \in {r \in shorter : Len(r) = n - 1}, x \in S}

Datagrams ==
    [first : FirstLines, headers : SeqsUpTo(HeaderLines, MaxHeaders), addr : Addrs]

NoDatagram == [first |-> "", headers |-> <<>>, addr |-> <<"", 0>>]

\* bytes.decode(errors="ignore"): bytes that are not valid UTF-8 are dropped
\* and the rest is kept.
Decode(b) ==
    CASE b = "\\xffM-SEARCH * HTTP/1.1" -> "M-SEARCH * HTTP/1.1"
      [] b = " ssdp:\\xffall" -> " ssdp:all"
      [] b = " hub\\xff/1.0" -> " hub/1.0"
      [] OTHER -> b

\* str.upper() and str.strip() on the texts that occur.
Upper(x) ==
    CASE x = "m-search * http/1.1" -> "M-SEARCH * HTTP/1.1"
      [] x = "st" -> "ST"
      [] x = "Man" -> "MAN"
      [] OTHER -> x

Strip(x) ==
    CASE x = " urn:st-bridge:service:bridge:1" -> "urn:st-bridge:service:bridge:1"
      [] x = "ssdp:all " -> "ssdp:all"
      [] x = " ssdp:all" -> "ssdp:all"
      [] x = " upnp:rootdevice" -> "upnp:rootdevice"
      [] x = " \"ssdp:discover\"" -> "\"ssdp:discover\""
      [] x = " \"ssdp:alive\"" -> "\"ssdp:alive\""
      [] x = " 239.255.255.250:1900" -> "239.255.255.250:1900"
      [] x = " hub/1.0" -> "hub/1.0"
      [] OTHER -> x

StartsWithMSearch(x) == x = "M-SEARCH * HTTP/1.1"
ContainsDiscover(x) == x = "\"ssdp:discover\""

\* headers[k.strip().upper()] = v.strip() over the lines in order: the value
\* of the last line with that key, dflt when there is none.
RECURSIVE HeaderGet(_, _, _)
HeaderGet(hs, key, dflt) ==
    IF hs = <<>> THEN dflt
    ELSE LET h == hs[Len(hs)]
         IN IF h.colon /\ Upper(Strip(Decode(h.k))) = key
            THEN Strip(Decode(h.v))
            ELSE HeaderGet(SubSeq(hs, 1, Len(hs) - 1), key, dflt)

StMatches(st) == st \in {SSDP_ST, "ssdp:all"}

Reply(d) ==
    [to |-> d.addr, st |-> SSDP_ST, bridgePort |-> Port,
     location |-> <<d.addr[1], Port>>]

\* The sendto calls of _on_datagram for the datagram d.
RepliesTo(d) ==
    IF ~StartsWithMSearch(Upper(Decode(d.first))) THEN <<>>
    ELSE LET st == HeaderGet(d.headers, "ST", "")
             man == HeaderGet(d.headers, "MAN", "")
         IN IF ~(StMatches(st) /\ ContainsDiscover(man)) THEN <<>>
            ELSE <<Reply(d)>>

-----------------------------------------------------------------------------
VARIABLES
    listening,   \* self._server is accepting
    clients,     \* self._clients
    lockHolder,  \* task holding self._lock
    lockQ,       \* tasks waiting for self._lock, FIFO
    pc,          \* position of each session's handler task
    conn,        \* each connection as its transport sees the peer
    wclosed,     \* writers on which close() has been called
    inbox,       \* lines received, not yet returned by reader.read
    buf,         \* _handle's local buffer, as lines
    sent,        \* writer.write calls on each connection, in order
    rx,          \* lines passed to _on_line, in order
    calls,       \* command executor invocations of each session
    raised,      \* handler task ended with an exception
    added,       \* times the writer entered the registry
    removed,     \* times the writer left the registry
    bpc,         \* position of each broadcast call
    btodo,       \* sinks of the snapshot not yet written
    bcur,        \* sink whose drain the broadcast awaits
    bsnap,       \* the snapshot list(self._clients) of the call
    bfail,       \* sinks whose drain raised in the call
    cpc,         \* position of async_close
    cactive,     \* sessions active when async_close was called
    nlines,      \* lines sent by clients so far
    dgram,       \* the datagram last passed to _on_datagram
    ssdpSent,    \* sendto calls made by _on_datagram for that datagram
    wire,        \* bytes a peer has sent on its connection, in order
    pending,     \* bytes received and not yet returned by reader.read
    buffer,      \* _handle's local buffer, as bytes
    dispatched,  \* lines passed to _on_line, as decoded text
    feof,        \* the peer has closed its side
    fpc,         \* position of the read loop over these bytes
    setup,       \* position of async_setup_entry / BridgeCoordinator.async_start
    ssdpTransport, \* SSDPResponder._transport is open: the responder receives
    tcpServer,   \* the TCP listener of BridgeServer.start is bound
    stored       \* hass.data[DOMAIN][entry_id] holds the coordinator

serverVars == <<listening, clients, lockHolder, lockQ, pc, conn, wclosed, inbox,
                buf, sent, rx, calls, raised, added, removed, bpc, btodo, bcur,
                bsnap, bfail, cpc, cactive, nlines>>

ssdpVars == <<dgram, ssdpSent>>
frameVars == <<wire, pending, buffer, dispatched, feof, fpc>>
startVars == <<setup, ssdpTransport, tcpServer, stored>>
sideVars == <<ssdpVars, frameVars, startVars>>

vars == <<serverVars, sideVars>>

lockVars == <<lockHolder, lockQ>>
bcastVars == <<bpc, btodo, bcur, bsnap, bfail>>
closeVars == <<cpc, cactive, listening>>
inVars == <<inbox, buf, rx, nlines>>

Init ==
    /\ listening = TRUE
    /\ clients = {}
    /\ lockHolder = NoProc
    /\ lockQ = <<>>
    /\ pc = [s \in Sessions |-> "none"]
    /\ conn = [s \in Sessions |-> "none"]
    /\ wclosed = {}
    /\ inbox = [s \in Sessions |-> <<>>]
    /\ buf = [s \in Sessions |-> <<>>]
    /\ sent = [s \in Sessions |-> <<>>]
    /\ rx = [s \in Sessions |-> <<>>]
    /\ calls = [s \in Sessions |-> <<>>]
    /\ raised = [s \in Sessions |-> FALSE]
    /\ added = [s \in Sessions |-> 0]
    /\ removed = [s \in Sessions |-> 0]
    /\ bpc = [b \in Bcasts |-> "idle"]
    /\ btodo = [b \in Bcasts |-> {}]
    /\ bcur = [b \in Bcasts |-> 0]
    /\ bsnap = [b \in Bcasts |-> {}]
    /\ bfail = [b \in Bcasts |-> {}]
    /\ cpc = "idle"
    /\ cactive = {}
    /\ nlines = 0
    /\ dgram = NoDatagram
    /\ ssdpSent = <<>>
    /\ wire = <<>>
    /\ pending = <<>>
    /\ buffer = <<>>
    /\ dispatched = <<>>
    /\ feof = FALSE
    /\ fpc = "read"
    /\ setup = "idle"
    /\ ssdpTransport = FALSE
    /\ tcpServer = FALSE
    /\ stored = FALSE

----------------------------------------------------------------------------
\* asyncio.Lock: acquire() returns at once when the lock is free and nobody
\* waits, otherwise the task queues; release() wakes the first waiter.
\* A lock that never makes a task wait.
LockNeverHeld == TRUE

LockFree == lockHolder = NoProc /\ lockQ = <<>>

Enqueue(p) == lockQ' = Append(lockQ, p) /\ UNCHANGED lockHolder

Release ==
    IF lockQ = <<>>
    THEN lockHolder' = NoProc /\ lockQ' = lockQ
    ELSE lockHolder' = Head(lockQ) /\ lockQ' = Tail(lockQ)

\* writer.write(data): the call is recorded; it never raises here.
Written(s, m) == Append(sent[s], m)

\* await writer.drain(): blocks while the peer does not read, raises once the
\* connection is lost or the writer closed, returns otherwise.
DrainBlocked(s) == conn[s] = "stalled"
\* A drain that raises whenever it does not block.
DrainRaisesAnyway(s) == ~DrainBlocked(s)

DrainRaises(s) == ~DrainBlocked(s) /\ (conn[s] = "reset" \/ s \in wclosed)

\* The transport has reported connection_lost.
TransportLost(s) == conn[s] = "reset" \/ (s \in wclosed /\ conn[s] # "stalled")

\* reader.at_eof() / read() returning b"".
AtEof(s) == inbox[s] = <<>> /\ (conn[s] = "eof" \/ TransportLost(s))

----------------------------------------------------------------------------
\* Registry updates, with the membership changes they cause counted.
CountIn(cl, s) == IF s \in cl THEN 0 ELSE 1
CountOut(cl, s) == IF s \in cl THEN 1 ELSE 0

\* self._clients.add(writer)
ClientsAdd(cl, s) == cl \cup {s}

\* A discard that leaves the set as it is.
ClientsDiscardNothing(cl, s) == cl

\* self._clients.discard(w)
\* A discard that empties the registry.
ClientsDiscardAll(cl, s) == {}

ClientsDiscard(cl, s) == cl \ {s}

\* _handle: the registration and the hello write that follows it without a
\* suspension in between.
Register(s) ==
    /\ clients' = ClientsAdd(clients, s)
    /\ added' = [added EXCEPT ![s] = @ + CountIn(clients, s)]
    /\ sent' = [sent EXCEPT ![s] = Written(s, Hello)]
    /\ pc' = [pc EXCEPT ![s] = "hello"]

\* _safe_close up to its wait_closed(): discard under the lock, then
\* writer.close().  The task queues when the lock is taken.
SafeCloseBody(s) ==
    /\ clients' = ClientsDiscard(clients, s)
    /\ removed' = [removed EXCEPT ![s] = @ + CountOut(clients, s) - CountOut(clients', s)]
    /\ wclosed' = wclosed \cup {s}
    /\ pc' = [pc EXCEPT ![s] = "wclose"]

BeginSafeClose(s) ==
    IF LockFree
    THEN SafeCloseBody(s) /\ UNCHANGED lockVars
    ELSE /\ Enqueue(SessProc(s))
         /\ pc' = [pc EXCEPT ![s] = "close_wait"]
         /\ UNCHANGED <<clients, removed, wclosed>>

----------------------------------------------------------------------------
\* The listener accepts a connection and creates its handler task.  Accepting
\* in index order identifies runs that differ only in the sessions' names.
Accept(s) ==
    /\ listening
    /\ pc[s] = "none"
    /\ \A r \in Sessions : r < s => pc[r] # "none"
    /\ pc' = [pc EXCEPT ![s] = "start"]
    /\ conn' = [conn EXCEPT ![s] = "open"]
    /\ UNCHANGED sideVars
    /\ UNCHANGED <<clients, lockVars, wclosed, inVars, sent, calls, raised,
                   added, removed, bcastVars, closeVars>>

\* _handle, first step: async with self._lock.
HandleStart(s) ==
    /\ pc[s] = "start"
    /\ IF LockFree
       THEN Register(s) /\ UNCHANGED lockVars
       ELSE /\ Enqueue(SessProc(s))
            /\ pc' = [pc EXCEPT ![s] = "reg_wait"]
            /\ UNCHANGED <<clients, added, sent>>
    /\ UNCHANGED sideVars
    /\ UNCHANGED <<conn, wclosed, inVars, calls, raised, removed, bcastVars,
                   closeVars>>

\* _handle resumed with the lock.
HandleLocked(s) ==
    /\ pc[s] = "reg_wait"
    /\ lockHolder = SessProc(s)
    /\ Register(s)
    /\ Release
    /\ UNCHANGED sideVars
    /\ UNCHANGED <<conn, wclosed, inVars, calls, raised, removed, bcastVars,
                   closeVars>>

\* The hello drain ends (an exception is swallowed by _send); the entity list
\* is written.
HelloDrained(s) ==
    /\ pc[s] = "hello"
    /\ ~DrainBlocked(s)
    /\ sent' = [sent EXCEPT ![s] = Written(s, EntityList)]
    /\ pc' = [pc EXCEPT ![s] = "elist"]
    /\ UNCHANGED sideVars
    /\ UNCHANGED <<clients, lockVars, conn, wclosed, inVars, calls, raised,
                   added, removed, bcastVars, closeVars>>

\* The entity_list drain ends; no initial-state provider is configured
\* (coordinator.py passes none), so the read loop starts.
ElistDrained(s) ==
    /\ pc[s] = "elist"
    /\ ~DrainBlocked(s)
    /\ pc' = [pc EXCEPT ![s] = "loop"]
    /\ UNCHANGED sideVars
    /\ UNCHANGED <<clients, lockVars, conn, wclosed, inVars, sent, calls,
                   raised, added, removed, bcastVars, closeVars>>

\* The events of the initial-state provider, in its order.
St(i) == <<"state", i>>
StateMessages == [i \in 1..MaxReplay |-> St(i)]
Replayed(s) == Len(SelectSeq(sent[s], LAMBDA m : m[1] = "state"))

\* The entity_list drain ends with an initial-state provider configured:
\* await asyncio.sleep(0.8).
ElistDrainedReplay(s) ==
    /\ pc[s] = "elist"
    /\ ~DrainBlocked(s)
    /\ pc' = [pc EXCEPT ![s] = "settle"]
    /\ UNCHANGED sideVars
    /\ UNCHANGED <<clients, lockVars, conn, wclosed, inVars, sent, calls,
                   raised, added, removed, bcastVars, closeVars>>

\* The sleep ends and self._get_states() is called: it returns its list, whose
\* first event is written by _safe_send, or it raises, which the except clause
\* of the replay swallows, and the read loop starts.
SettleDone(s) ==
    /\ pc[s] = "settle"
    /\ \/ /\ sent' = [sent EXCEPT ![s] = Written(s, StateMessages[1])]
          /\ pc' = [pc EXCEPT ![s] = "replay"]
       \/ /\ pc' = [pc EXCEPT ![s] = "loop"]
          /\ UNCHANGED sent
    /\ UNCHANGED sideVars
    /\ UNCHANGED <<clients, lockVars, conn, wclosed, inVars, calls, raised,
                   added, removed, bcastVars, closeVars>>

\* The drain of a replayed event ends (an exception is swallowed by
\* _safe_send): the next event is written, or the read loop starts.
ReplayDrained(s) ==
    /\ pc[s] = "replay"
    /\ ~DrainBlocked(s)
    /\ IF Replayed(s) < MaxReplay
       THEN /\ sent' = [sent EXCEPT ![s] = Written(s, StateMessages[Replayed(s) + 1])]
            /\ UNCHANGED pc
       ELSE /\ pc' = [pc EXCEPT ![s] = "loop"]
            /\ UNCHANGED sent
    /\ UNCHANGED sideVars
    /\ UNCHANGED <<clients, lockVars, conn, wclosed, inVars, calls, raised,
                   added, removed, bcastVars, closeVars>>

\* while not reader.at_eof(): chunk = await reader.read(1024)
Read(s) ==
    /\ pc[s] = "loop"
    /\ buf[s] = <<>>
    /\ \/ /\ conn[s] # "reset"
          /\ inbox[s] # <<>>
          /\ buf' = [buf EXCEPT ![s] = inbox[s]]
          /\ inbox' = [inbox EXCEPT ![s] = <<>>]
          /\ UNCHANGED <<pc, clients, removed, wclosed, lockVars>>
       \/ /\ conn[s] = "reset" \/ AtEof(s)
          /\ BeginSafeClose(s)
          /\ UNCHANGED <<buf, inbox>>
    /\ UNCHANGED sideVars
    /\ UNCHANGED <<conn, rx, nlines, sent, calls, raised, added, bcastVars,
                   closeVars>>

\* An _on_line that does not catch the exception of json.loads.
OnLineOutcomeNoCatch(l) ==
    CASE ~IsObject(l) -> "raise"
      [] TypeOf(l) = "ping" -> "pong"
      [] TypeOf(l) = "command" /\ FieldsAreStr(l) -> "call"
      [] TypeOf(l) = "command" -> "bad_command"
      [] OTHER -> "ignore"

\* What _on_line does with a line, up to its first suspension.
OnLineOutcome(l) ==
    CASE ~IsJson(l) -> "bad_json"
      [] ~IsObject(l) -> "raise"
      [] TypeOf(l) = "ping" -> "pong"
      [] TypeOf(l) = "command" /\ FieldsAreStr(l) -> "call"
      [] TypeOf(l) = "command" -> "bad_command"
      [] OTHER -> "ignore"

ReplyOf(o) ==
    CASE o = "bad_json" -> ErrBadJson
      [] o = "pong" -> Pong
      [] o = "bad_command" -> ErrBadCommand

\* The inner loop takes the next line of the buffer and awaits _on_line.
Dispatch(s) ==
    /\ pc[s] = "loop"
    /\ buf[s] # <<>>
    /\ LET l == Head(buf[s])
           o == OnLineOutcome(l)
       IN /\ buf' = [buf EXCEPT ![s] = Tail(@)]
          /\ rx' = [rx EXCEPT ![s] = Append(@, l)]
          /\ CASE o \in {"bad_json", "pong", "bad_command"} ->
                    /\ sent' = [sent EXCEPT ![s] = Written(s, ReplyOf(o))]
                    /\ pc' = [pc EXCEPT ![s] = "reply"]
                    /\ UNCHANGED <<calls, raised, clients, removed, wclosed,
                                   lockVars>>
               [] o = "call" ->
                    /\ calls' = [calls EXCEPT ![s] = Append(@, Call(l))]
                    /\ pc' = [pc EXCEPT ![s] = "call"]
                    /\ UNCHANGED <<sent, raised, clients, removed, wclosed,
                                   lockVars>>
               [] o = "raise" ->
                    /\ raised' = [raised EXCEPT ![s] = TRUE]
                    /\ BeginSafeClose(s)
                    /\ UNCHANGED <<sent, calls>>
               [] o = "ignore" ->
                    UNCHANGED <<sent, calls, raised, pc, clients, removed,
                                wclosed, lockVars>>
    /\ UNCHANGED sideVars
    /\ UNCHANGED <<conn, inbox, nlines, added, bcastVars, closeVars>>

\* The drain of a reply ends (an exception is swallowed by _send).
ReplyDrained(s) ==
    /\ pc[s] = "reply"
    /\ ~DrainBlocked(s)
    /\ pc' = [pc EXCEPT ![s] = "loop"]
    /\ UNCHANGED sideVars
    /\ UNCHANGED <<clients, lockVars, conn, wclosed, inVars, sent, calls,
                   raised, added, removed, bcastVars, closeVars>>

\* await self._call(ent, cmd, args) returns.
ExecReturn(s) ==
    /\ pc[s] = "call"
    /\ pc' = [pc EXCEPT ![s] = "loop"]
    /\ UNCHANGED sideVars
    /\ UNCHANGED <<clients, lockVars, conn, wclosed, inVars, sent, calls,
                   raised, added, removed, bcastVars, closeVars>>

\* await self._call(...) raises (call_service converts argument values with
\* int(), float()); the exception leaves _on_line and _handle.
ExecRaise(s) ==
    /\ pc[s] = "call"
    /\ raised' = [raised EXCEPT ![s] = TRUE]
    /\ BeginSafeClose(s)
    /\ UNCHANGED sideVars
    /\ UNCHANGED <<conn, inVars, sent, calls, added, bcastVars, closeVars>>

\* _safe_close resumed with the lock.
SafeCloseLocked(s) ==
    /\ pc[s] = "close_wait"
    /\ lockHolder = SessProc(s)
    /\ SafeCloseBody(s)
    /\ Release
    /\ UNCHANGED sideVars
    /\ UNCHANGED <<conn, inVars, sent, calls, raised, added, bcastVars,
                   closeVars>>

\* wait_for(writer.wait_closed(), 0.5) returns or times out; _handle ends.
WaitClosed(s) ==
    /\ pc[s] = "wclose"
    /\ pc' = [pc EXCEPT ![s] = "done"]
    /\ UNCHANGED sideVars
    /\ UNCHANGED <<clients, lockVars, conn, wclosed, inVars, sent, calls,
                   raised, added, removed, bcastVars, closeVars>>

----------------------------------------------------------------------------
\* The handler task is cancelled while it is suspended (the event loop
\* cancels the tasks left at shutdown).  CancelledError is not an Exception:
\* in the drain of hello or entity_list it passes the except clause of _send
\* and leaves _handle before its try statement; in reader.read it leaves the
\* loop through the finally clause, which runs _safe_close.
Cancel(s) ==
    /\ \/ /\ pc[s] \in {"hello", "elist"}
          /\ pc' = [pc EXCEPT ![s] = "cancelled"]
          /\ UNCHANGED <<clients, removed, wclosed, lockVars>>
       \/ /\ pc[s] = "loop"
          /\ buf[s] = <<>>
          /\ BeginSafeClose(s)
    /\ UNCHANGED sideVars
    /\ UNCHANGED <<conn, inVars, sent, calls, raised, added, bcastVars,
                   closeVars>>

\* broadcast(): the loop over list(self._clients) from one suspension to the
\* next.  With no sink left the lock is released and the call returns;
\* otherwise the line is written to the next sink (in any order: the registry
\* is a set) and its drain awaited.  held: the call already holds the lock.
BcastAdvance(b, todo, held) ==
    IF todo = {}
    THEN /\ bpc' = [bpc EXCEPT ![b] = "done"]
         /\ btodo' = [btodo EXCEPT ![b] = {}]
         /\ bcur' = [bcur EXCEPT ![b] = 0]
         /\ sent' = sent
         /\ IF held THEN Release ELSE UNCHANGED lockVars
    ELSE \E w \in todo :
         /\ sent' = [sent EXCEPT ![w] = Written(w, Bc(b))]
         /\ bpc' = [bpc EXCEPT ![b] = "drain"]
         /\ btodo' = [btodo EXCEPT ![b] = todo \ {w}]
         /\ bcur' = [bcur EXCEPT ![b] = w]
         /\ IF held
            THEN UNCHANGED lockVars
            ELSE lockHolder' = BcastProc(b) /\ lockQ' = lockQ

\* A broadcast that keeps a sink whose drain raised.
BcastEvictKeep(cl, w, failed) == cl

\* The registry after the drain of sink w raised (or not) in broadcast().
BcastEvict(cl, w, failed) == IF failed THEN ClientsDiscard(cl, w) ELSE cl

\* broadcast(obj) is called.  Calls are numbered in the order they are made.
BroadcastCall(b) ==
    /\ bpc[b] = "idle"
    /\ \A a \in Bcasts : a < b => bpc[a] # "idle"
    /\ IF LockFree
       THEN /\ bsnap' = [bsnap EXCEPT ![b] = clients]
            /\ BcastAdvance(b, clients, FALSE)
       ELSE /\ Enqueue(BcastProc(b))
            /\ bpc' = [bpc EXCEPT ![b] = "wait"]
            /\ UNCHANGED <<bsnap, btodo, bcur, sent>>
    /\ UNCHANGED sideVars
    /\ UNCHANGED <<clients, pc, conn, wclosed, inVars, calls, raised, added,
                   removed, bfail, closeVars>>

\* broadcast() resumed with the lock.
BcastLocked(b) ==
    /\ bpc[b] = "wait"
    /\ lockHolder = BcastProc(b)
    /\ bsnap' = [bsnap EXCEPT ![b] = clients]
    /\ BcastAdvance(b, clients, TRUE)
    /\ UNCHANGED sideVars
    /\ UNCHANGED <<clients, pc, conn, wclosed, inVars, calls, raised, added,
                   removed, bfail, closeVars>>

\* The drain of the current sink ends: it returned, or it raised and the sink
\* is discarded; the loop goes on.
BcastDrained(b) ==
    /\ bpc[b] = "drain"
    /\ ~DrainBlocked(bcur[b])
    /\ LET w == bcur[b]
           failed == DrainRaises(w)
       IN /\ clients' = BcastEvict(clients, w, failed)
          /\ removed' = [removed EXCEPT
                           ![w] = @ + CountOut(clients, w) - CountOut(clients', w)]
          /\ bfail' = [bfail EXCEPT ![b] = IF failed THEN @ \cup {w} ELSE @]
    /\ BcastAdvance(b, btodo[b], TRUE)
    /\ UNCHANGED sideVars
    /\ UNCHANGED <<pc, conn, wclosed, inVars, calls, raised, added, bsnap,
                   closeVars>>

----------------------------------------------------------------------------
\* async_close() with the lock: close every registered writer, clear the
\* registry, release, close the listening server.
CloseBody ==
    /\ wclosed' = wclosed \cup clients
    /\ clients' = {}
    /\ removed' = [s \in Sessions |->
                     removed[s] + CountOut(clients, s) - CountOut(clients', s)]
    /\ listening' = FALSE
    /\ cpc' = "wait_closed"

\* async_close() is called.
CloseCall ==
    /\ cpc = "idle"
    /\ cactive' = {s \in Sessions : pc[s] \notin {"none", "done"}}
    /\ IF LockFree
       THEN CloseBody /\ UNCHANGED lockVars
       ELSE /\ Enqueue(CloseProc)
            /\ cpc' = "wait"
            /\ UNCHANGED <<wclosed, clients, removed, listening>>
    /\ UNCHANGED sideVars
    /\ UNCHANGED <<pc, conn, inVars, sent, calls, raised, added, bcastVars>>

\* async_close() resumed with the lock.
CloseLocked ==
    /\ cpc = "wait"
    /\ lockHolder = CloseProc
    /\ CloseBody
    /\ Release
    /\ UNCHANGED sideVars
    /\ UNCHANGED <<pc, conn, inVars, sent, calls, raised, added, bcastVars,
                   cactive>>

\* await self._server.wait_closed() returns once every connection the server
\* accepted has been lost (asyncio of Python 3.12 and later).
CloseReturn ==
    /\ cpc = "wait_closed"
    /\ \A s \in Sessions : conn[s] # "none" => TransportLost(s)
    /\ cpc' = "done"
    /\ UNCHANGED sideVars
    /\ UNCHANGED <<listening, cactive, clients, lockVars, pc, conn, wclosed,
                   inVars, sent, calls, raised, added, removed, bcastVars>>

\* await self._server.wait_closed() returns at once after close() (asyncio
\* before Python 3.12).
CloseReturnLegacy ==
    /\ cpc = "wait_closed"
    /\ \E s \in Sessions : conn[s] # "none" /\ ~TransportLost(s)
    /\ cpc' = "done"
    /\ UNCHANGED sideVars
    /\ UNCHANGED <<listening, cactive, clients, lockVars, pc, conn, wclosed,
                   inVars, sent, calls, raised, added, removed, bcastVars>>

----------------------------------------------------------------------------
\* The peers.
ClientSend(s, l) ==
    /\ pc[s] \notin {"none", "done"}
    /\ conn[s] \in {"open", "stalled"}
    /\ s \notin wclosed
    /\ nlines < MaxLines
    /\ inbox' = [inbox EXCEPT ![s] = Append(@, l)]
    /\ nlines' = nlines + 1
    /\ UNCHANGED sideVars
    /\ UNCHANGED <<clients, lockVars, pc, conn, wclosed, buf, rx, sent, calls,
                   raised, added, removed, bcastVars, closeVars>>

\* The peer closes its side: end of stream.
ClientEof(s) ==
    /\ pc[s] \notin {"none", "done"}
    /\ conn[s] = "open"
    /\ conn' = [conn EXCEPT ![s] = "eof"]
    /\ UNCHANGED sideVars
    /\ UNCHANGED <<clients, lockVars, pc, wclosed, inVars, sent, calls, raised,
                   added, removed, bcastVars, closeVars>>

\* The connection is reset: reads and drains raise from now on.
ClientReset(s) ==
    /\ pc[s] \notin {"none", "done"}
    /\ conn[s] \in {"open", "stalled", "eof"}
    /\ conn' = [conn EXCEPT ![s] = "reset"]
    /\ inbox' = [inbox EXCEPT ![s] = <<>>]
    /\ UNCHANGED sideVars
    /\ UNCHANGED <<clients, lockVars, pc, wclosed, buf, rx, nlines, sent, calls,
                   raised, added, removed, bcastVars, closeVars>>

\* The peer stops reading for good and the write buffer fills: drains block.
ClientStall(s) ==
    /\ pc[s] \notin {"none", "done"}
    /\ conn[s] = "open"
    /\ conn' = [conn EXCEPT ![s] = "stalled"]
    /\ UNCHANGED sideVars
    /\ UNCHANGED <<clients, lockVars, pc, wclosed, inVars, sent, calls, raised,
                   added, removed, bcastVars, closeVars>>

----------------------------------------------------------------------------
\* The handler task of a connection, with the lock free at each of its
\* acquisitions or not.
LifecycleStep(s) ==
    \/ HandleStart(s)
    \/ HelloDrained(s)
    \/ ElistDrained(s)
    \/ Read(s)
    \/ WaitClosed(s)

ContendedStep(s) ==
    \/ HandleLocked(s)
    \/ SafeCloseLocked(s)

LineStep(s) ==
    \/ Dispatch(s)
    \/ ReplyDrained(s)

ExecutorStep(s) ==
    \/ ExecReturn(s)
    \/ ExecRaise(s)

BcastStep(b) ==
    \/ BcastLocked(b)
    \/ BcastDrained(b)

CloseStep ==
    \/ CloseLocked
    \/ CloseReturn
    \/ CloseReturnLegacy

PeerStep(s) ==
    \/ Accept(s)
    \/ ClientEof(s)
    \/ ClientReset(s)

\* The whole server.
Next ==
    \/ \E s \in Sessions : LifecycleStep(s) \/ ContendedStep(s)
    \/ \E s \in Sessions : LineStep(s) \/ ExecutorStep(s)
    \/ \E b \in Bcasts : BroadcastCall(b) \/ BcastStep(b)
    \/ CloseCall \/ CloseStep
    \/ \E s \in Sessions : PeerStep(s) \/ ClientStall(s)
    \/ \E s \in Sessions, l \in Lines : ClientSend(s, l)

Spec == Init /\ [][Next]_vars

\* The registry, the broadcasts and the shutdown, with peers that send no
\* line and always read.
NextBus ==
    \/ \E s \in Sessions : LifecycleStep(s) \/ ContendedStep(s)
    \/ \E b \in Bcasts : BroadcastCall(b) \/ BcastStep(b)
    \/ CloseCall \/ CloseStep
    \/ \E s \in Sessions : PeerStep(s)

SpecBus == Init /\ [][NextBus]_vars

\* The registry and the broadcasts while the server runs: no async_close().
NextFanout ==
    \/ \E s \in Sessions : LifecycleStep(s) \/ ContendedStep(s)
    \/ \E b \in Bcasts : BroadcastCall(b) \/ BcastStep(b)
    \/ \E s \in Sessions : PeerStep(s)

SpecFanout == Init /\ [][NextFanout]_vars

\* The same with peers that may stop reading.  The event loop runs every task
\* that can run, so a step of the server that stays possible is taken; nothing
\* is assumed of the peers or of the application.
ServerStepBus ==
    \/ \E s \in Sessions : LifecycleStep(s) \/ ContendedStep(s)
    \/ \E b \in Bcasts : BcastStep(b)
    \/ CloseStep

NextStall == NextBus \/ \E s \in Sessions : ClientStall(s)

SpecStall == Init /\ [][NextStall]_vars /\ WF_vars(ServerStepBus)

\* The line protocol of the sessions, with no broadcast and no shutdown in
\* progress (the lock is free whenever a handler asks for it).
NextLines ==
    \/ \E s \in Sessions : LifecycleStep(s)
    \/ \E s \in Sessions : LineStep(s) \/ ExecutorStep(s)
    \/ \E s \in Sessions : Accept(s) \/ ClientEof(s)
    \/ \E s \in Sessions, l \in BasicLines : ClientSend(s, l)

SpecLines == Init /\ [][NextLines]_vars

\* The command lines of one connection: every shape of line, on the first
\* connection alone.
NextCommands ==
    \/ LifecycleStep(1)
    \/ LineStep(1) \/ ExecutorStep(1)
    \/ Accept(1) \/ ClientEof(1)
    \/ \E l \in Lines : ClientSend(1, l)

SpecCommands == Init /\ [][NextCommands]_vars

----------------------------------------------------------------------------
\* Helpers of the properties.
Count(seq, x) == Cardinality({i \in DOMAIN seq : seq[i] = x})
MsgType(m) == m[1]
Last(seq) == seq[Len(seq)]
Streaming(s) == pc[s] \in {"loop", "reply", "call"}

\* C1: on every connection the first message written is hello and the second
\* is entity_list, whatever broadcast() calls run meanwhile.
C1_HelloThenEntityList ==
    \A s \in Sessions :
        /\ Len(sent[s]) >= 1 => sent[s][1] = Hello
        /\ Len(sent[s]) >= 2 => sent[s][2] = EntityList

\* C2: a writer is in the registry only after hello and entity_list have been
\* sent on it.
C2_RegisteredAfterHandshake ==
    \A s \in clients : Count(sent[s], Hello) = 1 /\ Count(sent[s], EntityList) = 1

\* C3: with a token configured, a session that has not presented the token is
\* sent nothing but hello and error messages, and none of its commands reaches
\* the executor.
C3_NothingBeforeToken ==
    \A s \in Sessions :
        (Token # "" /\ Count(rx[s], "auth") = 0) =>
            /\ \A i \in DOMAIN sent[s] :
                   MsgType(sent[s][i]) \in {"hello", "bad_json", "bad_command"}
            /\ calls[s] = <<>>

\* C4: when a broadcast() call has returned, every sink of its snapshot was
\* written its line exactly once, no other connection was written it, and
\* every sink whose drain raised is out of the registry; while it runs no sink
\* is written the line twice.
C4_BroadcastIsolation ==
    \A b \in Bcasts :
        /\ \A w \in Sessions : Count(sent[w], Bc(b)) <= 1
        /\ \A w \in Sessions \ bsnap[b] : Count(sent[w], Bc(b)) = 0
        /\ bpc[b] = "done" =>
              /\ \A w \in bsnap[b] : Count(sent[w], Bc(b)) = 1
              /\ \A w \in bfail[b] : w \notin clients

\* C4 witness: a call over two sinks has returned, one drain raised, and both
\* sinks were written the line.
C4_Witness ==
    \E b \in Bcasts :
        /\ bpc[b] = "done"
        /\ Cardinality(bsnap[b]) = 2
        /\ Cardinality(bfail[b]) = 1
        /\ \A w \in bsnap[b] : Count(sent[w], Bc(b)) = 1

\* C5: a writer enters the registry at most once and leaves it at most once,
\* it is in the registry exactly between the two, and once its handler has
\* ended it has left exactly once.
C5_RegisteredOnceRemovedOnce ==
    \A s \in Sessions :
        /\ added[s] <= 1
        /\ removed[s] <= added[s]
        /\ s \in clients <=> added[s] = removed[s] + 1
        /\ pc[s] = "done" => added[s] = 1 /\ removed[s] = 1

\* C5 witness: a handler has ended after a broadcast had already evicted its
\* writer, and the writer left the registry once.
C5_Witness ==
    \E s \in Sessions, b \in Bcasts :
        pc[s] = "done" /\ s \in bfail[b] /\ removed[s] = 1

\* C6: when async_close() has returned the listener accepts nothing and every
\* session that was active at the call has its connection closed and its
\* handler ended.
C6_CloseLeavesNothingRunning ==
    cpc = "done" =>
        /\ ~listening
        /\ \A s \in cactive : s \in wclosed /\ pc[s] = "done"

\* C7: a sink whose drain never completes does not keep a broadcast from the
\* other sinks of its snapshot: each of them that stays healthy is eventually
\* written the line.
C7_StalledSinkDoesNotBlockOthers ==
    \A b \in Bcasts, w \in Sessions :
        (bpc[b] = "drain" /\ w \in btodo[b] /\ conn[w] = "open")
            ~> (w \notin btodo[b] \/ conn[w] # "open")

\* C8: while the executor invocation of a command has not finished, the next
\* line of the connection can be dispatched.
C8_NextLineNotBlockedByExecutor ==
    \A s \in Sessions :
        (pc[s] = "call" /\ buf[s] # <<>>) => ENABLED Dispatch(s)

\* C9: every line that is not JSON is answered by exactly one bad_json error,
\* right after it the session is open, registered and without exception, and
\* every ping dispatched, also after such a line, is answered by one pong.
C9_BadJsonIsNotFatal ==
    \A s \in Sessions :
        /\ Count(sent[s], ErrBadJson) = Count(rx[s], "garbage")
        /\ Count(sent[s], Pong) = Count(rx[s], "ping")
        /\ (rx[s] # <<>> /\ Last(rx[s]) = "garbage" /\ conn[s] = "open") =>
              /\ Streaming(s)
              /\ s \in clients
              /\ s \notin wclosed
              /\ ~raised[s]

\* C9 witness: a line that is not JSON, then a ping, answered by the error and
\* the pong on a session that is still registered.
C9_Witness ==
    \E s \in Sessions :
        /\ rx[s] = <<"garbage", "ping">>
        /\ sent[s] = <<Hello, EntityList, ErrBadJson, Pong>>
        /\ s \in clients
        /\ s \notin wclosed

\* C10: once a session is streaming no line ends it: while the peer keeps the
\* connection open the session that was passed a line is still streaming and
\* no exception has left its handler.
C10_NoLineIsFatal ==
    \A s \in Sessions :
        (rx[s] # <<>> /\ conn[s] = "open") => Streaming(s) /\ ~raised[s]

\* One connection with an initial-state provider configured, broadcasts and
\* pings.  With no other sink no broadcast holds the lock when the handler
\* registers.
ReplayStep(s) ==
    \/ HandleStart(s) \/ HelloDrained(s)
    \/ ElistDrainedReplay(s) \/ SettleDone(s) \/ ReplayDrained(s)
    \/ Read(s) \/ SafeCloseLocked(s) \/ WaitClosed(s)

NextReplay ==
    \/ ReplayStep(1)
    \/ LineStep(1)
    \/ \E b \in Bcasts : BroadcastCall(b) \/ BcastStep(b)
    \/ Accept(1) \/ ClientEof(1) \/ ClientReset(1)
    \/ ClientSend(1, "ping")

SpecReplay == Init /\ [][NextReplay]_vars

\* Connections whose handler tasks may be cancelled; no broadcast, no inbound
\* line.
NextCancel ==
    \/ \E s \in Sessions : LifecycleStep(s)
    \/ \E s \in Sessions : Accept(s) \/ ClientEof(s) \/ ClientReset(s)
    \/ \E s \in Sessions : Cancel(s)

SpecCancel == Init /\ [][NextCancel]_vars

\* discovery.py, _on_datagram: the callback runs to its end for each datagram
\* and keeps nothing from one datagram to the next, so one datagram is followed.
OnDatagram(d) ==
    /\ dgram = NoDatagram
    /\ dgram' = d
    /\ ssdpSent' = RepliesTo(d)
    /\ UNCHANGED <<serverVars, frameVars, startVars>>

NextDiscovery == \E d \in Datagrams : OnDatagram(d)

SpecDiscovery == Init /\ [][NextDiscovery]_vars

-----------------------------------------------------------------------------
\* The inner loop runs from the buffer b up to its next suspension: the
\* await of _on_line for the next line that is not blank, or the next read.
\* A line on which _on_line raises ends the loop through the finally clause.
FrameFrom(b) ==
    LET r == NextLine(b)
    IN /\ buffer' = r.buffer
       /\ IF r.line = <<>>
          THEN /\ fpc' = "read"
               /\ UNCHANGED dispatched
          ELSE /\ dispatched' = Append(dispatched, r.line)
               /\ fpc' = IF LineRaises(r.line) THEN "closed" ELSE "split"

\* reader.read(1024) returns a chunk: any non-empty prefix of what has been
\* received; buffer += chunk and the inner loop starts.
ReadChunk(n) ==
    /\ fpc = "read"
    /\ n \in 1..Len(pending)
    /\ pending' = SubSeq(pending, n + 1, Len(pending))
    /\ FrameFrom(buffer \o SubSeq(pending, 1, n))
    /\ UNCHANGED <<wire, feof>>
    /\ UNCHANGED <<serverVars, ssdpVars, startVars>>

\* _on_line has returned: the inner loop goes on with the rest of the buffer.
SplitNext ==
    /\ fpc = "split"
    /\ FrameFrom(buffer)
    /\ UNCHANGED <<wire, pending, feof>>
    /\ UNCHANGED <<serverVars, ssdpVars, startVars>>

\* At end of stream reader.at_eof() holds (or read returns b""): the loop ends
\* and what is left in the buffer is dropped with it.
ReadEof ==
    /\ fpc = "read"
    /\ feof /\ pending = <<>>
    /\ fpc' = "closed"
    /\ UNCHANGED <<wire, pending, buffer, dispatched, feof>>
    /\ UNCHANGED <<serverVars, ssdpVars, startVars>>

\* The peer sends one more byte.
PeerWrite(c) ==
    /\ ~feof /\ fpc # "closed"
    /\ Len(wire) < MaxStream
    /\ wire' = Append(wire, c)
    /\ pending' = Append(pending, c)
    /\ UNCHANGED <<buffer, dispatched, feof, fpc>>
    /\ UNCHANGED <<serverVars, ssdpVars, startVars>>

\* The peer closes its side.
PeerClose ==
    /\ ~feof /\ fpc # "closed"
    /\ feof' = TRUE
    /\ UNCHANGED <<wire, pending, buffer, dispatched, fpc>>
    /\ UNCHANGED <<serverVars, ssdpVars, startVars>>

NextFraming ==
    \/ \E n \in 1..MaxStream : ReadChunk(n)
    \/ SplitNext
    \/ ReadEof
    \/ \E c \in Bytes : PeerWrite(c)
    \/ PeerClose

SpecFraming == Init /\ [][NextFraming]_vars

\* __init__.py async_setup_entry and coordinator.py async_start.
\* await self._ssdp.async_start() returns: the responder receives datagrams.
SsdpStarted ==
    /\ setup = "idle"
    /\ ssdpTransport' = TRUE
    /\ setup' = "ssdp_up"
    /\ UNCHANGED <<tcpServer, stored>>
    /\ UNCHANGED <<serverVars, ssdpVars, frameVars>>

\* SSDPResponder.async_start raises (socket or endpoint creation): the
\* exception leaves async_start and async_setup_entry; nothing was started.
SsdpStartRaises ==
    /\ setup = "idle"
    /\ setup' = "ssdp_failed"
    /\ UNCHANGED <<ssdpTransport, tcpServer, stored>>
    /\ UNCHANGED <<serverVars, ssdpVars, frameVars>>

\* await self._server.start() returns; async_start and async_setup_entry run
\* to their end and the coordinator is stored.
ServerStarted ==
    /\ setup = "ssdp_up"
    /\ tcpServer' = TRUE
    /\ stored' = TRUE
    /\ setup' = "done"
    /\ UNCHANGED ssdpTransport
    /\ UNCHANGED <<serverVars, ssdpVars, frameVars>>

\* asyncio.start_server raises OSError (the port is in use): the exception
\* leaves BridgeServer.start, async_start and async_setup_entry.
ServerBindRaises ==
    /\ setup = "ssdp_up"
    /\ setup' = "bind_failed"
    /\ UNCHANGED <<ssdpTransport, tcpServer, stored>>
    /\ UNCHANGED <<serverVars, ssdpVars, frameVars>>

\* async_unload_entry: async_stop() of the stored coordinator, if there is one.
UnloadEntry ==
    /\ setup \in {"done", "bind_failed"}
    /\ IF stored
       THEN /\ ssdpTransport' = FALSE
            /\ tcpServer' = FALSE
            /\ stored' = FALSE
       ELSE UNCHANGED <<ssdpTransport, tcpServer, stored>>
    /\ setup' = "unloaded"
    /\ UNCHANGED <<serverVars, ssdpVars, frameVars>>

\* A datagram arrives at the responder's socket while its transport is open.
Receive(d) ==
    /\ ssdpTransport
    /\ OnDatagram(d)

NextStart ==
    \/ SsdpStarted \/ SsdpStartRaises
    \/ ServerStarted \/ ServerBindRaises
    \/ UnloadEntry
    \/ \E d \in Datagrams : Receive(d)

SpecStart == Init /\ [][NextStart]_vars

\* The lines of rx[s] that are of one of the kinds ks, in order.
LinesOfKinds(s, ks) == SelectSeq(rx[s], LAMBDA l : l \in ks)

\* C11: every command line whose entity_id or command is missing or not a
\* string is answered by exactly one bad_command error, and the executor is
\* never invoked for such a line.
C11_BadCommandRejected ==
    \A s \in Sessions :
        /\ Count(sent[s], ErrBadCommand)
              = Len(LinesOfKinds(s, {"cmd_bad", "cmd_nocmd"}))
        /\ \A i \in DOMAIN calls[s] :
              calls[s][i].line \notin {"cmd_bad", "cmd_nocmd"}

\* C11 witness: a command without its command field and one with a number as
\* entity_id were both answered by the error and the executor was not invoked.
C11_Witness ==
    /\ rx[1] = <<"cmd_nocmd", "cmd_bad">>
    /\ sent[1] = <<Hello, EntityList, ErrBadCommand, ErrBadCommand>>
    /\ calls[1] = <<>>

\* C12: the executor is only invoked with a map as args: a command whose args
\* is not a map is answered by bad_command and not executed, and a command
\* without args is executed with the empty map.
C12_ArgsAlwaysMap ==
    \A s \in Sessions :
        /\ \A i \in DOMAIN calls[s] :
              /\ calls[s][i].args \in {"map", "empty_map"}
              /\ calls[s][i].line = "cmd_noargs" => calls[s][i].args = "empty_map"
        /\ Count(sent[s], ErrBadCommand)
              >= Len(LinesOfKinds(s, {"cmd_list"}))

\* C13: the executor invocations are, in order, the well-formed commands
\* received, each with the args of its line; no other line invokes it; a
\* well-formed command and a line of unrecognized type are not answered.
WellFormedCall(l) ==
    [line |-> l, args |-> IF l = "cmd_noargs" THEN "empty_map" ELSE "map"]

C13_CallsAreTheWellFormedCommands ==
    \A s \in Sessions :
        LET wf == LinesOfKinds(s, {"cmd", "cmd_noargs"})
        IN /\ calls[s] = [i \in DOMAIN wf |-> WellFormedCall(wf[i])]
           /\ Len(sent[s]) <= 2 + Len(rx[s])
                 - Len(LinesOfKinds(s, {"cmd", "cmd_noargs", "other", "auth"}))

-----------------------------------------------------------------------------
\* Discovery requests as the requester wrote them, byte for byte.
IsMSearchRequest(d) == d.first \in {"M-SEARCH * HTTP/1.1", "m-search * http/1.1"}
HasInvalidBytes(d) ==
    \/ d.first = "\\xffM-SEARCH * HTTP/1.1"
    \/ \E i \in DOMAIN d.headers : d.headers[i].v \in {" ssdp:\\xffall", " hub\\xff/1.0"}
NamedLines(d, names) ==
    {i \in DOMAIN d.headers : d.headers[i].colon /\ d.headers[i].k \in names}
SearchTargetLines(d) == NamedLines(d, {"ST", "st"})
ManLines(d) == NamedLines(d, {"MAN", "Man"})
SearchTargetOk(h) == h.v \in {" urn:st-bridge:service:bridge:1", "ssdp:all "}
ManOk(h) == h.v = " \"ssdp:discover\""

\* C14: a datagram is answered by exactly one reply, sent to its source
\* address and port and carrying the configured port as BRIDGE-PORT, when it
\* is an M-SEARCH request whose search-target headers name the service type or
\* ssdp:all and whose MAN headers say ssdp:discover; it is answered by nothing
\* unless it is an M-SEARCH request with such a search-target header and such
\* a MAN header.
C14_ReplyIffMatchingSearch ==
    dgram # NoDatagram =>
        LET sts == SearchTargetLines(dgram)
            mans == ManLines(dgram)
        IN /\ Len(ssdpSent) <= 1
           /\ \A i \in DOMAIN ssdpSent :
                 ssdpSent[i].to = dgram.addr /\ ssdpSent[i].bridgePort = Port
           /\ ssdpSent # <<>> =>
                 /\ IsMSearchRequest(dgram)
                 /\ \E i \in sts : SearchTargetOk(dgram.headers[i])
                 /\ \E i \in mans : ManOk(dgram.headers[i])
           /\ ( /\ IsMSearchRequest(dgram)
                /\ sts # {} /\ \A i \in sts : SearchTargetOk(dgram.headers[i])
                /\ mans # {} /\ \A i \in mans : ManOk(dgram.headers[i]) )
                 => Len(ssdpSent) = 1

\* C15: a datagram that holds bytes that are not valid UTF-8, or whose first
\* line is not an M-SEARCH request, is answered by nothing.
C15_UndecodableOrNotSearchIgnored ==
    (dgram # NoDatagram /\ (HasInvalidBytes(dgram) \/ ~IsMSearchRequest(dgram)))
        => ssdpSent = <<>>

-----------------------------------------------------------------------------
\* The handler of s has terminated, by whatever path.
Terminated(s) == pc[s] \in {"done", "cancelled"}

\* C16: whenever a handler has terminated, by end of stream, read error,
\* exception or cancellation, its writer is not in the registry and its
\* connection has been closed.
C16_TerminatedMeansCleanedUp ==
    \A s \in Sessions : Terminated(s) => (s \notin clients /\ s \in wclosed)

-----------------------------------------------------------------------------
\* The broadcast lines written to the sink w, in the order of their writes.
BcSeq(w) == SelectSeq(sent[w], LAMBDA m : MsgType(m) = "bc")

\* C17: two sinks that were both written the lines of the same two broadcasts
\* were written them in the same order, and no sink is written the line of a
\* broadcast twice.
C17_ConsistentBroadcastOrder ==
    \A w1, w2 \in Sessions :
        LET q1 == BcSeq(w1)
            q2 == BcSeq(w2)
        IN /\ \A i, j \in DOMAIN q1 : i < j => q1[i] # q1[j]
           /\ \A i, j \in DOMAIN q1, k, l \in DOMAIN q2 :
                 (i < j /\ q1[i] = q2[l] /\ q1[j] = q2[k]) => l < k

\* C17 witness: two broadcasts have returned and both sinks were written both
\* lines.
C17_Witness ==
    /\ \A w \in Sessions : Count(sent[w], Bc(1)) = 1 /\ Count(sent[w], Bc(2)) = 1
    /\ bpc[1] = "done" /\ bpc[2] = "done"

-----------------------------------------------------------------------------
\* A step of the handler of s on its way out after its transport failed: it
\* leaves the read loop, discards and closes its writer, or ends.
TerminationStep(s) ==
    /\ conn[s] \in {"reset", "eof"}
    /\ pc'[s] # pc[s]
    /\ pc'[s] \in {"close_wait", "wclose", "done"}

\* What a session has of its own: its place in the registry, its position in
\* the protocol, its connection and what was written to it.
Untouched(r) ==
    /\ (r \in clients') <=> (r \in clients)
    /\ (r \in wclosed') <=> (r \in wclosed)
    /\ pc'[r] = pc[r]
    /\ conn'[r] = conn[r]
    /\ sent'[r] = sent[r]

\* A registered writer leaves the registry for reasons of its own only: its
\* handler closes it, its own drain raised in a broadcast, or async_close()
\* cleared the registry.
LeftForOwnReason(r) ==
    (added[r] = 1 /\ r \notin clients) =>
        \/ pc[r] \in {"wclose", "done"}
        \/ \E b \in Bcasts : r \in bfail[b]
        \/ cpc # "idle"

\* C18: the termination of a session after a transport failure leaves every
\* other session as it was (registry membership, protocol position,
\* connection, lines written) and the listener accepting, so that every other
\* session is still in the snapshot of the broadcasts that follow.
C18_TerminationIsIsolated ==
    /\ [][\A s \in Sessions : TerminationStep(s) =>
             /\ listening' = listening
             /\ \A r \in Sessions \ {s} : Untouched(r)]_vars
    /\ [](\A r \in Sessions : LeftForOwnReason(r))

\* C18 witness: the first session received a broadcast, failed and ended; the
\* second one is still registered and streaming and was written the line of a
\* later broadcast, whose snapshot the first session was no longer in.
C18_Witness ==
    /\ pc[1] = "done" /\ conn[1] = "reset"
    /\ Count(sent[1], Bc(1)) = 1
    /\ listening
    /\ 2 \in clients /\ pc[2] = "loop"
    /\ bpc[2] = "done" /\ bsnap[2] = {2} /\ Count(sent[2], Bc(2)) = 1

-----------------------------------------------------------------------------
\* The places of sent[s] holding a replayed state event, a live broadcast.
StatePlaces(s) == {i \in DOMAIN sent[s] : MsgType(sent[s][i]) = "state"}
BcastPlaces(s) == {i \in DOMAIN sent[s] : MsgType(sent[s][i]) = "bc"}

\* C19: with an initial-state provider the state events are written in the
\* provider's order, all after entity_list and all before any live broadcast;
\* a failed send of a replayed event does not end the session: the handler
\* raises nothing, goes on to the read loop and answers each ping with a pong.
C19_ReplayBetweenListAndBroadcasts ==
    \A s \in Sessions :
        /\ SelectSeq(sent[s], LAMBDA m : MsgType(m) = "state")
              = SubSeq(StateMessages, 1, Cardinality(StatePlaces(s)))
        /\ \A i \in StatePlaces(s) : \E j \in 1..(i - 1) : sent[s][j] = EntityList
        /\ \A i \in StatePlaces(s), j \in BcastPlaces(s) : i < j
        /\ ~raised[s]
        /\ pc[s] \in {"settle", "replay"} => rx[s] = <<>>
        /\ Count(sent[s], Pong) <= Len(rx[s])
        /\ (pc[s] = "loop" /\ buf[s] = <<>>) => Count(sent[s], Pong) = Len(rx[s])

-----------------------------------------------------------------------------
\* The lines of a byte stream, whatever its chunks: the bytes between
\* newlines, decoded and stripped, without the blank ones and without what
\* follows the last newline.  cur is the line being read, acc the lines so far.
RECURSIVE LinesOf(_, _, _)
LinesOf(b, cur, acc) ==
    IF b = <<>> THEN acc
    ELSE IF b[1] # "\n" THEN LinesOf(Tail(b), Append(cur, b[1]), acc)
    ELSE LET line == StripLine(DecodeLine(cur))
         IN LinesOf(Tail(b), <<>>, IF line = <<>> THEN acc ELSE Append(acc, line))

IsPrefix(p, q) == Len(p) <= Len(q) /\ p = SubSeq(q, 1, Len(p))

\* C20: the lines dispatched are lines of the stream in the stream's order,
\* each once, whatever the chunks; blank lines and an unterminated last
\* fragment are not dispatched; and when the loop has ended every
\* newline-terminated non-blank line of the stream has been dispatched.
C20_FramingIndependentOfChunks ==
    /\ IsPrefix(dispatched, LinesOf(wire, <<>>, <<>>))
    /\ fpc = "closed" => dispatched = LinesOf(wire, <<>>, <<>>)

-----------------------------------------------------------------------------
\* The connection of s is open: the peer has neither closed nor reset it
\* (it may have stopped reading) and the server has not closed its writer.
ConnectionOpen(s) == conn[s] \in {"open", "stalled"} /\ s \notin wclosed

\* C21: every session whose handler is in its read loop with an open
\* connection is in the registry: a broadcast discards a sink only when its
\* connection is lost, which ends the handler's loop as well.
C21_LiveSessionIsRegistered ==
    \A s \in Sessions : (pc[s] = "loop" /\ ConnectionOpen(s)) => s \in clients

\* C21 witness: a broadcast has discarded a sink whose handler is still in its
\* read loop, its connection being reset, while the other session is in its
\* loop with an open connection and registered.
C21_Witness ==
    \E s, r \in Sessions, b \in Bcasts :
        /\ s \in bfail[b] /\ s \notin clients /\ pc[s] = "loop"
        /\ r # s /\ pc[r] = "loop" /\ ConnectionOpen(r) /\ r \in clients

-----------------------------------------------------------------------------
\* async_close() has cleared the registry.
RegistryCleared == cpc \in {"wait_closed", "done"}

\* C22: once async_close() has cleared the registry no writer is added to
\* it, so the registry is empty from then on, and after async_close() has
\* returned too.
C22_NothingRegistersAfterShutdown ==
    RegistryCleared => clients = {}

-----------------------------------------------------------------------------
\* C23: after a start that failed on the bind of the TCP listener no
\* discovery responder is running, so that no query is answered with a port
\* nothing listens on.
C23_NoResponderAfterFailedStart ==
    setup = "bind_failed" => (~tcpServer /\ ~stored /\ ~ssdpTransport)

====
